---------------------------- MODULE Spec2Model ----------------------------
(***************************************************************************)
(* diskviz: the background scan (spawn_scan) and the consumer that polls   *)
(* its channel (DiskVizApp::update), src/src/main.rs.                      *)
(*                                                                         *)
(* Paths are sequences of components.  The scanned root is <<"R">>.        *)
(* The file system under the root is a fixed snapshot for the duration of  *)
(* one scan: every metadata() call on the same entry gives the same answer.*)
(* File lengths are far below 2^64, so u64 addition never overflows here.  *)
(***************************************************************************)
EXTENDS Integers, Sequences, FiniteSets, TLC

\* ------------------------------ bounds ---------------------------------
MaxEntries == 5      \* raw walk items of one fixture (single-scan spec)
MaxScans == 3        \* scans started in one behaviour (concurrent spec)

None == <<>>
Some(v) == <<v>>

\* ------------------------------ paths ----------------------------------
root_path == <<"R">>

\* Path::parent: None for the empty path, else the path without its last
\* component.
Parent(p) == IF Len(p) = 0 THEN None ELSE Some(SubSeq(p, 1, Len(p) - 1))

\* Path::file_name().unwrap_or_default(): the last component, "" if none.
FileName(p) == IF Len(p) = 0 THEN "" ELSE p[Len(p)]

\* Path::join with a single relative component.
Join(p, n) == Append(p, n)

\* ------------------------------ DirNode --------------------------------
\* DirNode::new(name, path, size): children start empty.
DirNodeNew(name, path, size) ==
    [name |-> name, path |-> path, size |-> size, children |-> <<>>]

\* ------------------------- file-system fixtures ------------------------
\* One raw item of WalkDir's iterator: walk_ok = FALSE is an Err item,
\* meta_ok = FALSE makes DirEntry::metadata() return Err.  len is the true
\* length of the object.
Item(p, t, l, w, m) ==
    [path |-> p, ftype |-> t, len |-> l, walk_ok |-> w, meta_ok |-> m]

FileSlots == {"a", "b", "c", "d", "e"}
SlotPath(s) ==
    CASE s = "a" -> <<"R", "a.txt">>
      [] s = "b" -> <<"R", "B", "b.txt">>
      [] s = "c" -> <<"R", "B", "C", "c.txt">>
      [] s = "d" -> <<"R", "B", "d.txt">>
      [] s = "e" -> <<"R", "D", "e.txt">>
SlotLen(s) ==
    CASE s = "a" -> 10
      [] s = "b" -> 20
      [] s = "c" -> 30
      [] s = "d" -> 5
      [] s = "e" -> 7
Status == {"absent", "ok", "metaErr", "walkErr"}

RECURSIVE Ancestors(_)
\* the directories strictly between the root and p, plus the root
Ancestors(p) ==
    IF Len(p) <= 1 THEN {}
    ELSE LET q == Parent(p)[1] IN {q} \cup Ancestors(q)

\* The fixture for one assignment of statuses: the files, the directories
\* they need, optionally an empty directory R/E and a symlink R/ln.  The
\* metadata of a directory and of a symlink has a length too (4 and 3 here).
FixtureOf(st, withE, withLn) ==
    LET present == {s \in FileSlots : st[s] # "absent"}
        files == {Item(SlotPath(s), "file", SlotLen(s),
                       st[s] # "walkErr", st[s] = "ok") : s \in present}
        dirp == {root_path} \cup UNION {Ancestors(SlotPath(s)) : s \in present}
                  \cup (IF withE THEN {<<"R", "E">>} ELSE {})
        dirs == {Item(p, "dir", 4, TRUE, TRUE) : p \in dirp}
        lns == IF withLn THEN {Item(<<"R", "ln">>, "symlink", 3, TRUE, TRUE)}
               ELSE {}
    IN files \cup dirs \cup lns

\* The root does not exist: WalkDir yields one Err item and nothing else.
FxMissing == {Item(root_path, "dir", 0, FALSE, FALSE)}

AllFixtures ==
    {FxMissing} \cup
    {FixtureOf(st, e, l) : st \in [FileSlots -> Status],
                           e \in BOOLEAN, l \in BOOLEAN}

FixturesUpTo(n) == {fx \in AllFixtures : Cardinality(fx) <= n}

\* ------------------------- helpers over sequences ----------------------
RECURSIVE Perms(_)
Perms(S) ==
    IF S = {} THEN {<<>>}
    ELSE UNION {{<<x>> \o p : p \in Perms(S \ {x})} : x \in S}

\* ------------------------------ spawn_scan -----------------------------
\* .filter_map(Result::ok): the Err items are dropped.
IsOk(it) == it.walk_ok
FilterMapOk(walk) == SelectSeq(walk, IsOk)

IsDir(e) == e.ftype = "dir"
IsFile(e) == e.ftype = "file"

\* variant: the length is taken without asking whether metadata() failed
LenAlways(e) == e.len

\* e.metadata().map(|m| m.len()).unwrap_or(0)
LenOrZero(e) == IF e.meta_ok THEN e.len ELSE 0

\* entries.iter().filter(is_dir).count()
TotalDirs(entries) == Len(SelectSeq(entries, IsDir))


RECURSIVE ParSumsLossy(_)
\* variant: the partial sums are combined through an unsynchronised
\* accumulator, so the contribution of one half can be lost
ParSumsLossy(s) ==
    IF Len(s) = 0 THEN {0}
    ELSE IF Len(s) = 1 THEN {s[1]}
    ELSE UNION {{x + y : x \in ParSumsLossy(SubSeq(s, 1, k)),
                         y \in ParSumsLossy(SubSeq(s, k + 1, Len(s)))}
                \cup ParSumsLossy(SubSeq(s, 1, k))
                : k \in 1 .. (Len(s) - 1)}

RECURSIVE ParSums(_)
\* Every value a parallel .sum() of the sequence can produce: the sequence
\* is split at any point, the halves are summed and the results added.
ParSums(s) ==
    IF Len(s) = 0 THEN {0}
    ELSE IF Len(s) = 1 THEN {s[1]}
    ELSE UNION {{x + y : x \in ParSums(SubSeq(s, 1, k)),
                         y \in ParSums(SubSeq(s, k + 1, Len(s)))}
                : k \in 1 .. (Len(s) - 1)}

\* variant: the is_file filter is missing
ByteTermsAll(entries) == [k \in 1 .. Len(entries) |-> LenOrZero(entries[k])]

\* the lengths the reduction of total_bytes adds up
ByteTerms(entries) ==
    LET fs == SelectSeq(entries, IsFile)
    IN [k \in 1 .. Len(fs) |-> LenOrZero(fs[k])]


RECURSIVE BuildMapTouch(_, _)
\* variant: the group is created (entry(parent).or_default()) before the
\* metadata is asked for
BuildMapTouch(fs, map) ==
    IF Len(fs) = 0 THEN map
    ELSE LET entry == fs[1]
             rest == SubSeq(fs, 2, Len(fs))
             pp == Parent(entry.path)
             parent == IF pp = None THEN root_path ELSE pp[1]
             name == FileName(entry.path)
             old == IF parent \in DOMAIN map THEN map[parent] ELSE <<>>
             new == [q \in (DOMAIN map) \cup {parent} |->
                       IF q = parent
                       THEN IF entry.meta_ok
                            THEN Append(old, <<name, entry.len>>)
                            ELSE old
                       ELSE map[q]]
         IN BuildMapTouch(rest, new)

RECURSIVE BuildMapOverwrite(_, _)
\* variant: insert(parent, vec![..]) instead of entry(parent).push(..)
BuildMapOverwrite(fs, map) ==
    IF Len(fs) = 0 THEN map
    ELSE LET entry == fs[1]
             rest == SubSeq(fs, 2, Len(fs))
         IN IF entry.meta_ok
            THEN LET pp == Parent(entry.path)
                     parent == IF pp = None THEN root_path ELSE pp[1]
                     name == FileName(entry.path)
                     new == [q \in (DOMAIN map) \cup {parent} |->
                               IF q = parent
                               THEN << <<name, entry.len>> >>
                               ELSE map[q]]
                 IN BuildMapOverwrite(rest, new)
            ELSE BuildMapOverwrite(rest, map)

RECURSIVE BuildMap(_, _)
\* The for loop that groups the files by parent path: map is a function
\* from parent paths to sequences of <<name, len>>.
BuildMap(fs, map) ==
    IF Len(fs) = 0 THEN map
    ELSE LET entry == fs[1]
             rest == SubSeq(fs, 2, Len(fs))
         IN IF entry.meta_ok
            THEN LET pp == Parent(entry.path)
                     parent == IF pp = None THEN root_path ELSE pp[1]
                     name == FileName(entry.path)
                     old == IF parent \in DOMAIN map THEN map[parent] ELSE <<>>
                     new == [q \in (DOMAIN map) \cup {parent} |->
                               IF q = parent
                               THEN Append(old, <<name, entry.len>>)
                               ELSE map[q]]
                 IN BuildMap(rest, new)
            ELSE BuildMap(rest, map)

EmptyMap == [q \in {} |-> <<>>]

RECURSIVE SumSz(_)
\* list.iter().map(|(_, sz)| *sz).sum()
SumSz(list) ==
    IF Len(list) = 0 THEN 0 ELSE list[1][2] + SumSz(SubSeq(list, 2, Len(list)))

\* the file nodes made of one group, in the group's order
FileNodes(dir_path, list) ==
    [k \in 1 .. Len(list) |->
        DirNodeNew(list[k][1], Join(dir_path, list[k][1]), list[k][2])]

\* the dir_path == root_path branch
AttachRootFiles(root, list) ==
    [root EXCEPT !.children = root.children \o FileNodes(root_path, list)]

\* variant: the directory node keeps size 0
AttachSubdirZero(root, dir_path, list) ==
    LET node == [DirNodeNew(FileName(dir_path), dir_path, 0)
                   EXCEPT !.children = FileNodes(dir_path, list)]
    IN [root EXCEPT !.children = Append(root.children, node)]

\* the depth-1 branch
AttachSubdir(root, dir_path, list) ==
    LET node == [DirNodeNew(FileName(dir_path), dir_path, SumSz(list))
                   EXCEPT !.children = FileNodes(dir_path, list)]
    IN [root EXCEPT !.children = Append(root.children, node)]

\* variant: every group that is not the root's becomes a directory node
AttachGroupAnyDepth(root, dir_path, list) ==
    IF dir_path = root_path THEN AttachRootFiles(root, list)
    ELSE AttachSubdir(root, dir_path, list)

\* one iteration of `for (dir_path, list) in map.into_iter()`
AttachGroup(root, dir_path, list) ==
    IF dir_path = root_path THEN AttachRootFiles(root, list)
    ELSE IF Parent(dir_path) # None /\ Parent(dir_path)[1] = root_path
         THEN AttachSubdir(root, dir_path, list)
         ELSE root

RECURSIVE BuildChildren(_, _, _)
\* the whole loop, for one iteration order of the HashMap
BuildChildren(root, map, order) ==
    IF Len(order) = 0 THEN root
    ELSE BuildChildren(AttachGroup(root, order[1], map[order[1]]), map,
                       SubSeq(order, 2, Len(order)))

\* Lines 60-111 of the thread body: every result it can compute for one
\* file system, a record of the Progress payload and the root node.  walk
\* is the order par_bridge collects in, order the HashMap's iteration order.
ScanResults(fx) ==
    UNION {LET entries == FilterMapOk(walk)
               total_dirs == TotalDirs(entries)
               map == BuildMap(SelectSeq(entries, IsFile), EmptyMap)
           IN {[progress |-> [total_dirs |-> total_dirs,
                              total_bytes |-> total_bytes,
                              scanned_dirs |-> total_dirs,
                              scanned_bytes |-> total_bytes],
                root |-> BuildChildren(
                           DirNodeNew(FileName(root_path), root_path,
                                      total_bytes), map, order)]
               : total_bytes \in ParSums(ByteTerms(entries)),
                 order \in Perms(DOMAIN map)}
           : walk \in Perms(fx)}

\* ------------------------------- state ---------------------------------
ScanIds == 1 .. MaxScans

VARIABLES
    disk,       \* the directories the folder dialog can return (fixtures)
    maxScans,   \* how many scans the user starts at most
    nscans,     \* scans started so far; the latest scan is number nscans
    fs,         \* fs[i]: the file system scan i walks
    pc,         \* pc[i]: position of scan i's thread
    res,        \* res[i]: None, or Some(result) once the thread computed it
    chan,       \* chan[i]: messages buffered in scan i's channel
    rxAlive,    \* rxAlive[i]: the Receiver of scan i has not been dropped
    sendLog,    \* sendLog[i]: the send calls of scan i and whether each was Ok
    tree,       \* DiskVizApp.tree: Option<Box<DirNode>>
    rx,         \* DiskVizApp.rx: None or Some(i), the channel of scan i
    progress,   \* DiskVizApp.progress: Option<ScanProgress>
    bread,      \* DiskVizApp.bread: Vec<*const DirNode>
    treeFrom,   \* the scan that produced tree (0 if none)
    progFrom,   \* the scan that produced progress (0 if none)
    cpc,        \* position of the consumer inside update()
    ub          \* a dangling pointer of bread has been dereferenced

scanVars == <<fs, pc, res, chan, rxAlive, sendLog>>
appVars == <<tree, rx, progress, bread, treeFrom, progFrom>>
vars == <<disk, maxScans, nscans, fs, pc, res, chan, rxAlive, sendLog,
          tree, rx, progress, bread, treeFrom, progFrom, cpc, ub>>


\* variant: the scanned counters are still 0 when Progress is sent
ProgressMsgPartial(r) ==
    [type |-> "Progress",
     payload |-> [r.progress EXCEPT !.scanned_dirs = 0, !.scanned_bytes = 0]]

ProgressMsg(r) == [type |-> "Progress", payload |-> r.progress]
FinishedMsg(r) == [type |-> "Finished", payload |-> r.root]

\* DiskVizApp::default() and no scan started yet
InitWith(pool, limit) ==
    /\ disk = pool
    /\ maxScans = limit
    /\ nscans = 0
    /\ fs = [i \in ScanIds |-> {}]
    /\ pc = [i \in ScanIds |-> "unborn"]
    /\ res = [i \in ScanIds |-> None]
    /\ chan = [i \in ScanIds |-> <<>>]
    /\ rxAlive = [i \in ScanIds |-> FALSE]
    /\ sendLog = [i \in ScanIds |-> <<>>]
    /\ tree = None
    /\ rx = None
    /\ progress = None
    /\ bread = <<>>
    /\ treeFrom = 0
    /\ progFrom = 0
    /\ cpc = "top"
    /\ ub = FALSE

\* ------------------------- the scan thread ------------------------------
\* lines 60-111: enumerate, total, group and build the tree
ScanCompute(i) ==
    /\ pc[i] = "run"
    /\ \E r \in ScanResults(fs[i]) : res' = [res EXCEPT ![i] = Some(r)]
    /\ pc' = [pc EXCEPT ![i] = "sendP"]
    /\ UNCHANGED <<disk, maxScans, nscans, fs, chan, rxAlive, sendLog,
                   tree, rx, progress, bread, treeFrom, progFrom, cpc, ub>>


\* variant: the channel hands out the newest message first
SendFront(ch, alive, msg) == IF alive THEN <<msg>> \o ch ELSE ch

\* Sender::send on an unbounded channel: the message is queued while a
\* Receiver exists, otherwise the call returns Err and queues nothing.
Send(ch, alive, msg) == IF alive THEN Append(ch, msg) ELSE ch

\* variant: `.unwrap()` instead of `.ok()`, the thread panics on Err
AfterSendUnwrap(alive, nextpc) == IF alive THEN nextpc ELSE "panicked"

\* `.ok()` on the result of send: the thread goes on whatever the result.
AfterSend(alive, nextpc) == nextpc

\* variant: Progress is sent twice
SendProgressTwice(i) ==
    /\ pc[i] = "sendP"
    /\ LET msg == ProgressMsg(res[i][1]) IN
       /\ chan' = [chan EXCEPT ![i] = Send(chan[i], rxAlive[i], msg)]
       /\ sendLog' = [sendLog EXCEPT ![i] =
                        Append(sendLog[i], [type |-> msg.type, ok |-> rxAlive[i]])]
    /\ pc' = [pc EXCEPT ![i] = IF sendLog[i] = <<>> THEN "sendP"
                               ELSE AfterSend(rxAlive[i], "sendF")]
    /\ UNCHANGED <<disk, maxScans, nscans, fs, res, rxAlive,
                   tree, rx, progress, bread, treeFrom, progFrom, cpc, ub>>

\* line 114
SendProgress(i) ==
    /\ pc[i] = "sendP"
    /\ LET msg == ProgressMsg(res[i][1]) IN
       /\ chan' = [chan EXCEPT ![i] = Send(chan[i], rxAlive[i], msg)]
       /\ sendLog' = [sendLog EXCEPT ![i] =
                        Append(sendLog[i], [type |-> msg.type, ok |-> rxAlive[i]])]
    /\ pc' = [pc EXCEPT ![i] = AfterSend(rxAlive[i], "sendF")]
    /\ UNCHANGED <<disk, maxScans, nscans, fs, res, rxAlive,
                   tree, rx, progress, bread, treeFrom, progFrom, cpc, ub>>

\* variant: Finished is sent only for a tree that has children
SendFinishedNonEmpty(i) ==
    /\ pc[i] = "sendF"
    /\ LET msg == FinishedMsg(res[i][1]) IN
       IF msg.payload.children # <<>>
       THEN /\ chan' = [chan EXCEPT ![i] = Send(chan[i], rxAlive[i], msg)]
            /\ sendLog' = [sendLog EXCEPT ![i] =
                             Append(sendLog[i], [type |-> msg.type, ok |-> rxAlive[i]])]
       ELSE UNCHANGED <<chan, sendLog>>
    /\ pc' = [pc EXCEPT ![i] = AfterSend(rxAlive[i], "done")]
    /\ UNCHANGED <<disk, maxScans, nscans, fs, res, rxAlive,
                   tree, rx, progress, bread, treeFrom, progFrom, cpc, ub>>

\* line 115, and the end of the thread
SendFinished(i) ==
    /\ pc[i] = "sendF"
    /\ LET msg == FinishedMsg(res[i][1]) IN
       /\ chan' = [chan EXCEPT ![i] = Send(chan[i], rxAlive[i], msg)]
       /\ sendLog' = [sendLog EXCEPT ![i] =
                        Append(sendLog[i], [type |-> msg.type, ok |-> rxAlive[i]])]
    /\ pc' = [pc EXCEPT ![i] = AfterSend(rxAlive[i], "done")]
    /\ UNCHANGED <<disk, maxScans, nscans, fs, res, rxAlive,
                   tree, rx, progress, bread, treeFrom, progFrom, cpc, ub>>

\* --------------------------- the consumer -------------------------------
\* Dropping the Receiver held in an Option<Receiver>: the channel becomes
\* disconnected and its buffered messages are freed.
DropRx(alive, o) == [i \in ScanIds |-> IF o = Some(i) THEN FALSE ELSE alive[i]]
DropBuf(ch, o) == [i \in ScanIds |-> IF o = Some(i) THEN <<>> ELSE ch[i]]


\* variant: the retained progress is not cleared when a scan starts
ClickScanKeepProgress ==
    /\ cpc = "top"
    /\ nscans < maxScans
    /\ \E path \in disk :
         LET i == nscans + 1 IN
         /\ nscans' = i
         /\ fs' = [fs EXCEPT ![i] = path]
         /\ pc' = [pc EXCEPT ![i] = "run"]
         /\ rxAlive' = [DropRx(rxAlive, rx) EXCEPT ![i] = TRUE]
         /\ chan' = DropBuf(chan, rx)
         /\ rx' = Some(i)
    /\ tree' = None
    /\ bread' = <<>>
    /\ treeFrom' = 0
    /\ cpc' = "drain"
    /\ UNCHANGED <<disk, maxScans, res, sendLog, ub, progress, progFrom>>

\* variant: the breadcrumb stack is not cleared when a scan starts
ClickScanKeepBread ==
    /\ cpc = "top"
    /\ nscans < maxScans
    /\ \E path \in disk :
         LET i == nscans + 1 IN
         /\ nscans' = i
         /\ fs' = [fs EXCEPT ![i] = path]
         /\ pc' = [pc EXCEPT ![i] = "run"]
         /\ rxAlive' = [DropRx(rxAlive, rx) EXCEPT ![i] = TRUE]
         /\ chan' = DropBuf(chan, rx)
         /\ rx' = Some(i)
    /\ progress' = None
    /\ tree' = None
    /\ treeFrom' = 0
    /\ progFrom' = 0
    /\ cpc' = "drain"
    /\ UNCHANGED <<disk, maxScans, res, sendLog, ub, bread>>

\* variant: progress and tree are not reset when a scan starts
ClickScanKeepTree ==
    /\ cpc = "top"
    /\ nscans < maxScans
    /\ \E path \in disk :
         LET i == nscans + 1 IN
         /\ nscans' = i
         /\ fs' = [fs EXCEPT ![i] = path]
         /\ pc' = [pc EXCEPT ![i] = "run"]
         /\ rxAlive' = [DropRx(rxAlive, rx) EXCEPT ![i] = TRUE]
         /\ chan' = DropBuf(chan, rx)
         /\ rx' = Some(i)
    /\ bread' = <<>>
    /\ cpc' = "drain"
    /\ UNCHANGED <<disk, maxScans, res, sendLog, ub,
                   tree, progress, treeFrom, progFrom>>

\* lines 137-143: the button is clicked and a folder is picked
ClickScan ==
    /\ cpc = "top"
    /\ nscans < maxScans
    /\ \E path \in disk :
         LET i == nscans + 1 IN
         /\ nscans' = i
         /\ fs' = [fs EXCEPT ![i] = path]
         /\ pc' = [pc EXCEPT ![i] = "run"]
         /\ rxAlive' = [DropRx(rxAlive, rx) EXCEPT ![i] = TRUE]
         /\ chan' = DropBuf(chan, rx)
         /\ rx' = Some(i)
    /\ progress' = None
    /\ tree' = None
    /\ bread' = <<>>
    /\ treeFrom' = 0
    /\ progFrom' = 0
    /\ cpc' = "drain"
    /\ UNCHANGED <<disk, maxScans, res, sendLog, ub>>

\* lines 137-138: the button is not clicked, or the dialog is cancelled
NoClick ==
    /\ cpc = "top"
    /\ cpc' = "drain"
    /\ UNCHANGED <<disk, maxScans, nscans, scanVars, appVars, ub>>


\* variant: the channel handle is kept after Finished
RecvKeepRx ==
    /\ cpc = "drain"
    /\ rx # None
    /\ chan[rx[1]] # <<>>
    /\ LET i == rx[1]
           msg == Head(chan[i])
       IN IF msg.type = "Progress"
          THEN /\ progress' = Some(msg.payload)
               /\ progFrom' = i
               /\ UNCHANGED <<tree, treeFrom>>
          ELSE /\ tree' = Some(msg.payload)
               /\ treeFrom' = i
               /\ UNCHANGED <<progress, progFrom>>
    /\ chan' = [chan EXCEPT ![rx[1]] = Tail(chan[rx[1]])]
    /\ UNCHANGED <<disk, maxScans, nscans, fs, pc, res, sendLog, bread, cpc, ub,
                   rx, rxAlive>>

\* lines 154-161: try_recv returned a message
Recv ==
    /\ cpc = "drain"
    /\ rx # None
    /\ chan[rx[1]] # <<>>
    /\ LET i == rx[1]
           msg == Head(chan[i])
       IN IF msg.type = "Progress"
          THEN /\ progress' = Some(msg.payload)
               /\ progFrom' = i
               /\ chan' = [chan EXCEPT ![i] = Tail(chan[i])]
               /\ UNCHANGED <<tree, treeFrom, rx, rxAlive>>
          ELSE /\ tree' = Some(msg.payload)
               /\ treeFrom' = i
               /\ rx' = None
               /\ rxAlive' = DropRx(rxAlive, rx)
               /\ chan' = DropBuf([chan EXCEPT ![i] = Tail(chan[i])], rx)
               /\ UNCHANGED <<progress, progFrom>>
    /\ UNCHANGED <<disk, maxScans, nscans, fs, pc, res, sendLog, bread, cpc, ub>>

\* variant: recv() instead of try_recv(), which waits on an empty channel
DrainBreakBlocking ==
    /\ cpc = "drain"
    /\ \/ rx = None
       \/ rx # None /\ chan[rx[1]] = <<>> /\ pc[rx[1]] = "done"
    /\ cpc' = "render"
    /\ UNCHANGED <<disk, maxScans, nscans, scanVars, appVars, ub>>

\* lines 155-156: no channel, or try_recv returned Err (empty, disconnected)
DrainBreak ==
    /\ cpc = "drain"
    /\ \/ rx = None
       \/ rx # None /\ chan[rx[1]] = <<>>
    /\ cpc' = "render"
    /\ UNCHANGED <<disk, maxScans, nscans, scanVars, appVars, ub>>

\* A *const DirNode into the tree scan `alloc` built, to the node at `path`.
Ptr(alloc, path) == [alloc |-> alloc, path |-> path]

\* the raw pointer still points into the tree the app owns
Live(p) == tree # None /\ treeFrom = p.alloc

\* all nodes of a tree (three levels at most)
Nodes(t) ==
    {t} \cup {t.children[k] : k \in 1 .. Len(t.children)}
        \cup UNION {{t.children[k].children[j] :
                       j \in 1 .. Len(t.children[k].children)}
                    : k \in 1 .. Len(t.children)}

\* &*p: the node at p in the memory scan p.alloc allocated
Deref(p) == CHOOSE n \in Nodes(res[p.alloc][1].root) : n.path = p.path

\* lines 165-169
Current ==
    IF bread = <<>> THEN tree ELSE Some(Deref(bread[Len(bread)]))

Dangling == bread # <<>> /\ ~Live(bread[Len(bread)])

\* lines 171-256 with no click
RenderIdle ==
    /\ cpc = "render"
    /\ ub' = (ub \/ Dangling)
    /\ cpc' = "top"
    /\ UNCHANGED <<disk, maxScans, nscans, scanVars, appVars>>

\* lines 173-175: the back button
ClickBack ==
    /\ cpc = "render"
    /\ Current # None
    /\ bread # <<>>
    /\ bread' = SubSeq(bread, 1, Len(bread) - 1)
    /\ ub' = (ub \/ Dangling)
    /\ cpc' = "top"
    /\ UNCHANGED <<disk, maxScans, nscans, scanVars,
                   tree, rx, progress, treeFrom, progFrom>>

\* lines 199-203: a row is clicked
ClickChild ==
    /\ cpc = "render"
    /\ Current # None
    /\ \E k \in 1 .. Len(Current[1].children) :
         LET child == Current[1].children[k] IN
         bread' = IF child.children # <<>>
                  THEN Append(bread, Ptr(IF bread = <<>> THEN treeFrom
                                         ELSE bread[Len(bread)].alloc,
                                         child.path))
                  ELSE bread
    /\ ub' = (ub \/ Dangling)
    /\ cpc' = "top"
    /\ UNCHANGED <<disk, maxScans, nscans, scanVars,
                   tree, rx, progress, treeFrom, progFrom>>

\* ------------------------------ specifications --------------------------
ScanStep == \E i \in ScanIds : ScanCompute(i) \/ SendProgress(i) \/ SendFinished(i)
DrainStep == Recv \/ DrainBreak

Next ==
    \/ \E i \in ScanIds : ScanCompute(i)
    \/ \E i \in ScanIds : SendProgress(i)
    \/ \E i \in ScanIds : SendFinished(i)
    \/ ClickScan
    \/ NoClick
    \/ Recv
    \/ DrainBreak
    \/ RenderIdle
    \/ ClickBack
    \/ ClickChild

\* The scenario of the specification: R{a.txt=10, B{b.txt=20, C{c.txt=30}}}
FxScenario ==
    FixtureOf([s \in FileSlots |-> IF s \in {"a", "b", "c"} THEN "ok" ELSE "absent"],
              FALSE, FALSE)

\* R{a.txt=10} and R{B{b.txt=20}}
FxFlat ==
    FixtureOf([s \in FileSlots |-> IF s = "a" THEN "ok" ELSE "absent"],
              FALSE, FALSE)
FxSub ==
    FixtureOf([s \in FileSlots |-> IF s = "b" THEN "ok" ELSE "absent"],
              FALSE, FALSE)

\* Concurrent scans, each of one of three directories: a missing one, one
\* with a file and one with a subdirectory.
Init == InitWith({FxMissing, FxFlat, FxSub}, MaxScans)
Spec == Init /\ [][Next]_vars

\* One scan of one directory, any directory up to MaxEntries items.
AggInit ==
    \E fx \in FixturesUpTo(MaxEntries) \cup {FxScenario} : InitWith({fx}, 1)
AggSpec == AggInit /\ [][Next]_vars



\* every step of update()
ConsumerStep ==
    ClickScan \/ NoClick \/ DrainStep \/ RenderIdle \/ ClickBack \/ ClickChild

\* Scans of the directory with a subdirectory, where every started thread is
\* scheduled and the consumer is repainted again and again
\* (request_repaint_after).
LiveInit == InitWith({FxSub}, MaxScans)
LiveSpec ==
    /\ LiveInit
    /\ [][Next]_vars
    /\ WF_vars(ConsumerStep)
    /\ \A i \in ScanIds :
          WF_vars(ScanCompute(i) \/ SendProgress(i) \/ SendFinished(i))

\* Two scans of one and the same directory, any directory up to MaxEntries
\* items.
TwinInit ==
    \E fx \in FixturesUpTo(MaxEntries) \cup {FxScenario} : InitWith({fx}, 2)
TwinSpec == TwinInit /\ [][Next]_vars

\* The consumer's thread keeps running its drain loop.
FairSpec == Spec /\ WF_vars(DrainStep)
\* ------------------------ vocabulary of the properties ------------------
PF == <<"Progress", "Finished">>

IsPrefix(a, b) == Len(a) <= Len(b) /\ a = SubSeq(b, 1, Len(a))

\* the kinds of the send calls scan i has made, in order
Attempted(i) == [k \in 1 .. Len(sendLog[i]) |-> sendLog[i][k].type]

IsPlaced(e) == e.ok
\* the kinds of the messages scan i's channel accepted, in order
Placed(i) ==
    LET okd == SelectSeq(sendLog[i], IsPlaced)
    IN [k \in 1 .. Len(okd) |-> okd[k].type]

\* <<i, t>>: the root t carried by a Finished message of scan i, queued in
\* its channel or installed in the consumer
DeliveredTrees ==
    UNION {{<<i, chan[i][k].payload>> :
              k \in {j \in 1 .. Len(chan[i]) : chan[i][j].type = "Finished"}}
           : i \in ScanIds}
    \cup (IF tree # None THEN {<<treeFrom, tree[1]>>} ELSE {})

\* <<i, p>>: the payload p of a Progress message of scan i, queued or held
DeliveredProgress ==
    UNION {{<<i, chan[i][k].payload>> :
              k \in {j \in 1 .. Len(chan[i]) : chan[i][j].type = "Progress"}}
           : i \in ScanIds}
    \cup (IF progress # None THEN {<<progFrom, progress[1]>>} ELSE {})

\* the regular files of a file system that are enumerated and whose
\* metadata can be read
GoodFiles(fx) == {it \in fx : it.walk_ok /\ it.ftype = "file" /\ it.meta_ok}

\* the items that fail: enumeration error, or a file without metadata
BadItems(fx) == {it \in fx : ~it.walk_ok \/ (it.ftype = "file" /\ ~it.meta_ok)}

\* the good files whose parent directory is two or more levels below the root
DeepFiles(fx) == {it \in GoodFiles(fx) : Len(it.path) - Len(root_path) >= 3}

RECURSIVE LenSum(_)
\* the sum of the true lengths of a set of items
LenSum(S) ==
    IF S = {} THEN 0
    ELSE LET it == CHOOSE x \in S : TRUE IN it.len + LenSum(S \ {it})

RECURSIVE SizeSum(_)
\* the sum of the sizes of a sequence of nodes
SizeSum(ns) ==
    IF Len(ns) = 0 THEN 0 ELSE ns[1].size + SizeSum(SubSeq(ns, 2, Len(ns)))

PathSize(ns) == {<<ns[k].path, ns[k].size>> : k \in 1 .. Len(ns)}

FxEmpty == FixtureOf([s \in FileSlots |-> "absent"], FALSE, FALSE)

\* ------------------------------- C1 -------------------------------------
\* C1: for every scan, the send calls made so far are a prefix of
\* <<Progress, Finished>> and are exactly these two once the thread has ended;
\* the messages the channel accepted are a prefix of <<Progress, Finished>>
\* too, and are exactly these two when the receiver was still there (it
\* exists, or it was dropped by receiving Finished).  Holds for every
\* directory, the missing one included.
C1_MessageOrder ==
    \A i \in ScanIds :
        /\ IsPrefix(Attempted(i), PF)
        /\ IsPrefix(Placed(i), PF)
        /\ pc[i] = "done" => Attempted(i) = PF
        /\ (pc[i] = "done" /\ (rxAlive[i] \/ treeFrom = i)) => Placed(i) = PF
        /\ pc[i] \in {"unborn", "run"} => Attempted(i) = <<>>

C1_Witness ==
    \E i \in ScanIds : pc[i] = "done" /\ Placed(i) = PF /\ fs[i] = FxMissing

\* ------------------------------- C2 -------------------------------------
\* C2: whatever the consumer holds comes from the latest scan: its tree, its
\* progress and its channel handle belong to scan nscans, and the tree and the
\* progress are the ones that scan computed; and starting a scan changes
\* nothing of the threads already running.
C2_LatestOnly ==
    /\ tree # None =>
         treeFrom = nscans /\ res[nscans] # None /\ tree[1] = res[nscans][1].root
    /\ progress # None =>
         progFrom = nscans /\ res[nscans] # None
                           /\ progress[1] = res[nscans][1].progress
    /\ rx # None => rx[1] = nscans

C2_NotCancelled ==
    nscans' # nscans =>
        \A i \in ScanIds : pc[i] # "unborn" =>
            pc'[i] = pc[i] /\ res'[i] = res[i] /\ fs'[i] = fs[i]
                           /\ sendLog'[i] = sendLog[i]

C2_StaleDiscarded == [] C2_LatestOnly /\ [][C2_NotCancelled]_vars

\* the first scan was abandoned while it ran (its Finished was refused), it
\* ran to its end all the same, and the consumer holds the second scan's tree
C2_Witness ==
    /\ nscans = 2
    /\ pc[1] = "done"
    /\ ~sendLog[1][2].ok
    /\ tree # None
    /\ treeFrom = 2

\* ------------------------------- C3 -------------------------------------
\* C3: the size of the root of every Finished tree and the total_bytes of
\* every Progress equal the sum of the lengths of the regular files
\* enumerated under the root (those whose metadata can be read), for every
\* collection order, reduction grouping and map iteration order.
C3_TotalConservation ==
    /\ \A d \in DeliveredTrees : d[2].size = LenSum(GoodFiles(fs[d[1]]))
    /\ \A d \in DeliveredProgress :
          d[2].total_bytes = LenSum(GoodFiles(fs[d[1]]))

C3_Witness ==
    /\ tree # None
    /\ progress # None
    /\ Cardinality(GoodFiles(fs[treeFrom])) >= 3
    /\ tree[1].size = 35

\* ------------------------------- C4 -------------------------------------
\* C4 as stated: every node with children, the root included, has size equal
\* to the sum of its children's sizes.
C4_SizeInvariantAll ==
    \A d \in DeliveredTrees :
        \A n \in Nodes(d[2]) : n.children # <<>> => n.size = SizeSum(n.children)

\* C4 amended: every node below the root that has children has size equal to
\* the sum of its children's sizes; the root's size is at least the sum of its
\* children's sizes and equals it when no readable file lies two or more
\* levels below the root.
C4_SizeInvariant ==
    \A d \in DeliveredTrees :
        LET t == d[2] IN
        /\ \A n \in Nodes(t) \ {t} :
              n.children # <<>> => n.size = SizeSum(n.children)
        /\ t.size >= SizeSum(t.children)
        /\ DeepFiles(fs[d[1]]) = {} => t.size = SizeSum(t.children)

C4_Witness ==
    /\ tree # None
    /\ \E k \in 1 .. Len(tree[1].children) :
          Len(tree[1].children[k].children) >= 2
    /\ Len(tree[1].children) >= 2

\* ------------------------------- C5 -------------------------------------
\* C5: the files two or more levels below the root are in the root's size
\* and in total_bytes but not in the tree: the root's size exceeds the sum of
\* its children's sizes by exactly their lengths, total_bytes is the lengths
\* of the other readable files plus theirs, no node has the path of such a
\* file or of its parent directory, and no node is deeper than a file of a
\* depth-1 directory.
C5_Truncation ==
    /\ \A d \in DeliveredTrees :
          LET t == d[2]
              deep == DeepFiles(fs[d[1]])
          IN /\ t.size = SizeSum(t.children) + LenSum(deep)
             /\ \A n \in Nodes(t) :
                   /\ Len(n.path) - Len(root_path) <= 2
                   /\ \A it \in deep :
                         n.path # it.path /\ Some(n.path) # Parent(it.path)
             /\ \A k \in 1 .. Len(t.children) :
                   \A j \in 1 .. Len(t.children[k].children) :
                       t.children[k].children[j].children = <<>>
    /\ \A d \in DeliveredProgress :
          LET fx == fs[d[1]] IN
          d[2].total_bytes =
              LenSum(GoodFiles(fx) \ DeepFiles(fx)) + LenSum(DeepFiles(fx))

C5_Witness ==
    /\ tree # None
    /\ progress # None
    /\ DeepFiles(fs[treeFrom]) # {}
    /\ tree[1].children # <<>>
    /\ tree[1].size > SizeSum(tree[1].children)

\* ------------------------------- C6 -------------------------------------
\* the tree of the scenario, up to the order of the root's children
ScenarioA == DirNodeNew("a.txt", <<"R", "a.txt">>, 10)
ScenarioB ==
    [name |-> "B", path |-> <<"R", "B">>, size |-> 20,
     children |-> <<DirNodeNew("b.txt", <<"R", "B", "b.txt">>, 20)>>]

\* C6: every directory node under the root is a depth-1 directory, its size
\* is the sum of the lengths of the (readable) files whose parent is exactly
\* that directory, and its children are exactly those files, each once; for
\* R{a.txt=10, B{b.txt=20, C{c.txt=30}}} the root has size 60 and the two
\* children a.txt (10) and B, where B has size 20 and children [b.txt].
C6_DepthOneDirs ==
    \A d \in DeliveredTrees :
        LET t == d[2]
            fx == fs[d[1]]
        IN /\ \A k \in 1 .. Len(t.children) :
                 LET n == t.children[k]
                     own == {it \in GoodFiles(fx) : Parent(it.path) = Some(n.path)}
                 IN n.children # <<>> =>
                      /\ Parent(n.path) = Some(root_path)
                      /\ n.name = FileName(n.path)
                      /\ n.size = LenSum(own)
                      /\ PathSize(n.children) = {<<it.path, it.len>> : it \in own}
                      /\ Len(n.children) = Cardinality(own)
           /\ fx = FxScenario =>
                 /\ t.size = 60
                 /\ Len(t.children) = 2
                 /\ {t.children[1], t.children[2]} = {ScenarioA, ScenarioB}

C6_Witness ==
    /\ tree # None
    /\ fs[treeFrom] = FxScenario
    /\ tree[1].children[1] = ScenarioB

\* ------------------------------- C7 -------------------------------------
Degenerate(fx) == fx = FxMissing \/ fx = FxEmpty

\* C7: a scan of a missing root, or of a root without entries, never fails:
\* its thread is at one of its ordinary positions, its result is a root of
\* size 0 without children and total_bytes 0, once it has ended it has sent
\* Progress then Finished, and the tree the consumer receives from it is that
\* empty root.
C7_DegenerateInput ==
    \A i \in ScanIds :
        Degenerate(fs[i]) =>
            /\ pc[i] \in {"run", "sendP", "sendF", "done"}
            /\ res[i] # None =>
                  /\ res[i][1].root.size = 0
                  /\ res[i][1].root.children = <<>>
                  /\ res[i][1].progress.total_bytes = 0
            /\ pc[i] = "done" => Attempted(i) = PF
            /\ \A d \in DeliveredTrees :
                  d[1] = i => d[2].size = 0 /\ d[2].children = <<>>

C7_Witness ==
    /\ tree # None
    /\ progress # None
    /\ fs[treeFrom] = FxEmpty
    /\ pc[treeFrom] = "done"

\* ------------------------------- C8 -------------------------------------
\* a send call of scan i on a channel whose receiver is gone
FailedSend(i) == pc[i] \in {"sendP", "sendF"} /\ ~rxAlive[i] /\ pc'[i] # pc[i]

\* C8: no thread ever panics or repeats a send; a thread whose first send
\* was refused still makes both sends, Progress then Finished, and ends; and a
\* refused send moves the thread to its next position, queues nothing and
\* leaves every field of the consumer as it was.
C8_NoPanic ==
    \A i \in ScanIds :
        /\ pc[i] \in {"unborn", "run", "sendP", "sendF", "done"}
        /\ Len(sendLog[i]) <= 2
        /\ (pc[i] = "done" /\ ~sendLog[i][1].ok) =>
              Attempted(i) = PF /\ Placed(i) = <<>>
        /\ ~rxAlive[i] => chan[i] = <<>>

C8_Swallowed ==
    \A i \in ScanIds :
        FailedSend(i) =>
            /\ pc'[i] = (IF pc[i] = "sendP" THEN "sendF" ELSE "done")
            /\ chan' = chan
            /\ UNCHANGED <<appVars, cpc, ub>>

C8_SendFailure == [] C8_NoPanic /\ [][C8_Swallowed]_vars

C8_Witness ==
    \E i \in ScanIds :
        /\ pc[i] = "done"
        /\ ~sendLog[i][1].ok
        /\ ~sendLog[i][2].ok

\* ------------------------------- C9 -------------------------------------
\* C9: an item whose enumeration failed and a file whose metadata cannot be
\* read leave no trace: the root's size and total_bytes are the lengths of
\* all files minus the lengths of the failed ones, total_dirs counts only the
\* enumerated directories, no node other than the root has the path of a
\* failed item, and the thread still makes both sends.
C9_BadEntriesDropped ==
    /\ \A d \in DeliveredTrees :
          LET fx == fs[d[1]]
              files == {it \in fx : it.ftype = "file"}
          IN /\ d[2].size = LenSum(files) - LenSum(files \cap BadItems(fx))
             /\ \A n \in Nodes(d[2]) \ {d[2]} :
                   \A it \in BadItems(fx) : n.path # it.path
    /\ \A d \in DeliveredProgress :
          LET fx == fs[d[1]]
              files == {it \in fx : it.ftype = "file"}
          IN /\ d[2].total_bytes = LenSum(files) - LenSum(files \cap BadItems(fx))
             /\ d[2].total_dirs =
                   Cardinality({it \in fx : it.ftype = "dir" /\ it.walk_ok})
    /\ \A i \in ScanIds : pc[i] = "done" => Attempted(i) = PF

C9_Witness ==
    /\ tree # None
    /\ progress # None
    /\ \E it \in fs[treeFrom] : it.ftype = "file" /\ it.walk_ok /\ ~it.meta_ok
    /\ \E it \in fs[treeFrom] : it.ftype = "file" /\ ~it.walk_ok
    /\ tree[1].size > 0

\* ------------------------------- C10 ------------------------------------
\* C10: inside the drain loop the consumer can always take a step without
\* waiting for a thread (a buffered message is handled, anything else ends
\* the loop), a message it handles is the one at the head of the current
\* channel's buffer at that moment and is taken out of it, and every drain
\* loop ends: from the loop the consumer always gets to the rendering that
\* follows it (after Finished the handle is None, which ends the loop).
C10_HandlesBuffered ==
    (cpc = "drain" /\ (tree' # tree \/ progress' # progress)) =>
        /\ rx # None
        /\ chan[rx[1]] # <<>>
        /\ chan'[rx[1]] = Tail(chan[rx[1]])
        /\ \/ progress' = Some(Head(chan[rx[1]]).payload)
           \/ tree' = Some(Head(chan[rx[1]]).payload) /\ rx' = None

C10_NeverBlocks ==
    /\ [](cpc = "drain" => ENABLED DrainStep)
    /\ [][C10_HandlesBuffered]_vars
    /\ (cpc = "drain") ~> (cpc = "render")

\* the loop has ended right after Finished was handled
C10_Witness ==
    /\ cpc = "render"
    /\ tree # None
    /\ rx = None
    /\ pc[treeFrom] = "done"

\* ------------------------------- C11 ------------------------------------
IsProgressKind(k) == k = "Progress"

\* C11: every Progress payload has scanned_dirs = total_dirs and
\* scanned_bytes = total_bytes; a thread sends nothing before it has computed
\* its result and sends Progress once at most; and the total_bytes of a scan's
\* Progress is the size of the root that scan computed and of the root its
\* Finished carries.
C11_ProgressFinal ==
    /\ \A d \in DeliveredProgress :
          /\ d[2].scanned_dirs = d[2].total_dirs
          /\ d[2].scanned_bytes = d[2].total_bytes
          /\ res[d[1]] # None
          /\ d[2].total_bytes = res[d[1]][1].root.size
          /\ \A t \in DeliveredTrees : t[1] = d[1] => d[2].total_bytes = t[2].size
    /\ \A i \in ScanIds :
          /\ sendLog[i] # <<>> => res[i] # None /\ pc[i] \in {"sendF", "done"}
          /\ pc[i] \in {"unborn", "run"} => chan[i] = <<>>
          /\ Len(SelectSeq(Attempted(i), IsProgressKind)) <= 1

C11_Witness ==
    /\ tree # None
    /\ progress # None
    /\ progress[1].scanned_bytes = 60
    /\ progress[1].scanned_dirs = 3
    /\ tree[1].size = 60

\* ------------------------------- C12 ------------------------------------
\* the size at every path a tree retains
SizesAt(t) == {<<n.path, n.size>> : n \in Nodes(t)}

\* C12: two scans of the same directory compute the same size at every
\* retained path and the same Progress, whatever order the entries were
\* collected in, however the sum was grouped and in whatever order the map
\* was iterated.
C12_Idempotence ==
    \A i \in ScanIds : \A j \in ScanIds :
        (i # j /\ res[i] # None /\ res[j] # None /\ fs[i] = fs[j]) =>
            /\ SizesAt(res[i][1].root) = SizesAt(res[j][1].root)
            /\ res[i][1].progress = res[j][1].progress

\* both scans ran on a directory with several readable files and built
\* their children in different orders
C12_Witness ==
    /\ res[1] # None
    /\ res[2] # None
    /\ fs[1] = fs[2]
    /\ Cardinality(GoodFiles(fs[1])) >= 2
    /\ res[1][1].root # res[2][1].root
    /\ tree # None
    /\ treeFrom = 2

\* ------------------------------- C13 ------------------------------------
\* how many messages the consumer has taken from the channel it holds
Received(i) == Len(Placed(i)) - Len(chan[i])

\* the step that starts a scan
C13_ClearedAtStart ==
    nscans' # nscans =>
        /\ progress' = None
        /\ tree' = None
        /\ bread' = <<>>
        /\ rx' = Some(nscans')
        /\ rxAlive'[nscans']
        /\ chan'[nscans'] = <<>>
        /\ rx # None => ~rxAlive'[rx[1]]

\* while the consumer holds a channel
C13_NothingUntilReceived ==
    rx # None =>
        /\ rx[1] = nscans
        /\ rxAlive[nscans]
        /\ tree = None
        /\ Received(nscans) = 0 => progress = None
        /\ Received(nscans) < 2

\* C13: the step that starts a scan leaves the consumer without progress,
\* without tree and with an empty breadcrumb stack, drops the old channel
\* handle and installs the new scan's; and as long as the consumer holds that
\* handle it has no tree, and no progress either before it has taken the
\* scan's Progress out of the channel.
C13_ScanStartClears ==
    [] C13_NothingUntilReceived /\ [][C13_ClearedAtStart]_vars

\* the second scan has just been started after the first one was received:
\* nothing is held
C13_Witness ==
    /\ nscans = 2
    /\ rx = Some(2)
    /\ pc[2] = "run"
    /\ Placed(1) = PF
    /\ progress = None
    /\ tree = None
    /\ bread = <<>>

\* ------------------------------- C14 ------------------------------------
\* C14: whenever the consumer holds a tree it holds a progress too, both
\* come from the same scan, and the progress's total_bytes is the size of the
\* tree's root; a Finished at the head of the held channel is only ever met
\* after that scan's Progress has been taken.
C14_ProgressBeforeTree ==
    /\ tree # None =>
          /\ progress # None
          /\ progFrom = treeFrom
          /\ progress[1].total_bytes = tree[1].size
    /\ (rx # None /\ chan[rx[1]] # <<>> /\ Head(chan[rx[1]]).type = "Finished") =>
          progress # None /\ progFrom = rx[1]

C14_Witness ==
    /\ tree # None
    /\ progress # None
    /\ treeFrom = 2
    /\ tree[1].size = 20
    /\ fs[1] = FxFlat

\* ------------------------------- C15 ------------------------------------
\* the consumer holds the tree of scan i and has dropped its channel handle
Installed(i) == tree # None /\ treeFrom = i /\ rx = None

\* a step that installs a tree takes it from the latest scan's channel while
\* no tree is held and drops the handle; a held tree only changes by a scan
\* start
C15_OneTreePerScan ==
    /\ (tree' # tree /\ tree' # None) =>
          /\ tree = None
          /\ rx = Some(nscans)
          /\ nscans' = nscans
          /\ treeFrom' = nscans
          /\ rx' = None
    /\ (tree # None /\ tree' # tree) => nscans' = nscans + 1 /\ tree' = None

\* C15: with the threads scheduled and the consumer repainting, the latest
\* scan's tree is eventually installed and the handle dropped, unless another
\* scan is started first; once installed, no other tree is installed until a
\* scan is started, so a scan installs one tree at most.
C15_EventuallyInstalled ==
    /\ \A i \in ScanIds : (nscans = i) ~> (Installed(i) \/ nscans # i)
    /\ [][C15_OneTreePerScan]_vars

C15_Witness ==
    /\ Installed(3)
    /\ pc[3] = "done"
    /\ pc[1] = "done"
    /\ cpc = "top"

\* ------------------------------- C16 ------------------------------------
\* every pointer of the breadcrumb stack points into the tree the consumer
\* owns, at a node of that tree, and no dangling pointer was ever dereferenced
C16_PointersValid ==
    /\ bread # <<>> => tree # None
    /\ \A k \in 1 .. Len(bread) :
          /\ Live(bread[k])
          /\ \E n \in Nodes(tree[1]) : n.path = bread[k].path /\ Deref(bread[k]) = n
    /\ ~Dangling
    /\ ~ub

\* the tree is not cleared or replaced under a non-empty breadcrumb stack
\* unless the stack is emptied in the same step
C16_ClearedTogether ==
    (bread # <<>> /\ (tree' # tree \/ treeFrom' # treeFrom)) => bread' = <<>>

\* C16: after any sequence of scan starts, receptions, drill-down clicks and
\* back clicks, a non-empty breadcrumb stack implies an installed tree, every
\* pointer in it refers to a node of that tree, the node dereferenced for the
\* current view is never freed memory, and a step that clears or replaces the
\* tree empties the stack.
C16_BreadValid == [] C16_PointersValid /\ [][C16_ClearedTogether]_vars

\* drilled down into the subdirectory of the second scan's tree, after the
\* first scan's tree was replaced
C16_Witness ==
    /\ bread # <<>>
    /\ treeFrom = 2
    /\ bread[1].alloc = 2
    /\ fs[1] = FxSub
    /\ Placed(1) = PF
    /\ cpc = "render"

\* ------------------------------- C17 ------------------------------------
\* the enumerated directories directly under the root
DirOnePaths(fx) ==
    {it.path : it \in {x \in fx : /\ x.ftype = "dir"
                                 /\ x.walk_ok
                                 /\ Len(x.path) = Len(root_path) + 1}}

\* directory p directly contains a file with readable metadata
HasOwnFile(fx, p) == \E it \in GoodFiles(fx) : Parent(it.path) = Some(p)

\* C17: a directory directly under the root has a node among the root's
\* children, exactly one, if and only if it directly contains a file with
\* readable metadata; an empty directory and a directory whose files are all
\* deeper or unreadable have none; so every node below the root that stands
\* for a directory has children, and every node with children is such a
\* directory.
C17_SubdirIffFiles ==
    \A d \in DeliveredTrees :
        LET t == d[2]
            fx == fs[d[1]]
            at(p) == {k \in 1 .. Len(t.children) : t.children[k].path = p}
        IN /\ \A p \in DirOnePaths(fx) :
                 /\ (at(p) # {}) <=> HasOwnFile(fx, p)
                 /\ Cardinality(at(p)) <= 1
           /\ \A n \in Nodes(t) \ {t} :
                 /\ (\E it \in fx : it.ftype = "dir" /\ it.path = n.path) =>
                       n.children # <<>>
                 /\ n.children # <<>> => n.path \in DirOnePaths(fx)

\* the empty directory R/E got no node while R/B, which holds a readable
\* file, got one
C17_Witness ==
    /\ tree # None
    /\ <<"R", "E">> \in DirOnePaths(fs[treeFrom])
    /\ HasOwnFile(fs[treeFrom], <<"R", "B">>)
    /\ \E k \in 1 .. Len(tree[1].children) : tree[1].children[k].path = <<"R", "B">>
    /\ \A k \in 1 .. Len(tree[1].children) : tree[1].children[k].path # <<"R", "E">>
=============================================================================
